---- MODULE Spec2Model ----
(***************************************************************************)
(* gachacha: a rotating card carousel (HomePage), a settings page with     *)
(* local copies of the settings (SettingsPage), the settings store         *)
(* (AppContext: load from localStorage, updateSettings, persist) and the   *)
(* camera and hand detector of gesture mode (useGestureControl).           *)
(*                                                                         *)
(* Numbers are exact integers in fixed units, so that every comparison the *)
(* code makes is decided exactly:                                          *)
(*   moveSpeed      in tenths            (1.0x is 10)                      *)
(*   palmX          in hundredths        (0.5 is 50)                       *)
(*   gestureSpeed   in 45ths             (1.0 is 45, the code's maxRange)  *)
(*   rotation       in 1/900 of a degree (so that one frame at any speed   *)
(*                                        is a whole number of units)      *)
(* null is Null (-1); undefined is the string "undefined".                 *)
(* calculateGestureSpeed is also evaluated in IEEE 754 binary64, for the   *)
(* statements about its exact values; Math.cos of the card placement is a  *)
(* fixed-point approximation.                                              *)
(*                                                                         *)
(* Every handler is one atomic step on the current state (React flushes    *)
(* the state updates of a handler before the next event is delivered).     *)
(* Navigating between the routes unmounts one page and mounts the other:   *)
(* the state of the page left is discarded.                                *)
(***************************************************************************)
EXTENDS Integers, Sequences, FiniteSets, TLC

----------------------------------------------------------------------------
(* Program constants *)

MinCardAmount == 3
MaxCardAmount == 20
DefaultCardAmount == 10
DefaultMoveSpeed == 10
MinMoveSpeed == 5
MaxMoveSpeed == 30
GestureDeadZone == 5
GestureMaxRange == 45
UnitsPerDegree == 20 * GestureMaxRange
FullTurn == 360 * UnitsPerDegree
EdgeThreshold == 100
ContainerWidth == 1000
Null == -1

(* Bounds of the model *)

MaxTurns == 1          \* |rotation| stays within MaxTurns full turns
MaxEditIndex == 0      \* labels 0..MaxEditIndex can be edited
MaxSmallAmount == 4    \* slider inputs 2..MaxSmallAmount (and 10, 11, 21)
MaxPinchConfirms == 2  \* confirms counted within one held pinch
GestureCardAmount == 5 \* SpecGesture: the card amount saved before the draws
MaxConfirmTurns == 2   \* SpecConfirm: rotations within MaxConfirmTurns full turns
MaxStaleStarts == 1    \* camera.start() calls abandoned while pending, streams leaked included
MaxStoredCards == 2    \* SpecLoad: stored records with 0..MaxStoredCards cards of any ids

AmountInputs == (2 .. MaxSmallAmount) \cup {DefaultCardAmount, DefaultCardAmount + 1, MaxCardAmount + 1}
SpeedInputs == {5}
EditTexts == {"X"}
DeltaFrames == {144}
PalmInputs == {0, 50, 100}
PointerInputs == {50, 500, 950}
\* SpecConfirm: rotations on a grid of a quarter of a degree
ConfirmAngles == {(UnitsPerDegree \div 4) * k : k \in -(1440 * MaxConfirmTurns) .. (1440 * MaxConfirmTurns)}

----------------------------------------------------------------------------
(* Helpers: JavaScript arithmetic and array operations *)

Max(a, b) == IF a >= b THEN a ELSE b
Min(a, b) == IF a <= b THEN a ELSE b
Abs(a) == IF a >= 0 THEN a ELSE -a

\* JavaScript %: the result takes the sign of the dividend.
JsRem(a, m) == IF a >= 0 THEN a % m ELSE -((-a) % m)

\* Math.round(num / den) for num >= 0, den > 0: halves round up.
RoundDiv(num, den) == (2 * num + den) \div (2 * den)

\* Array.prototype.slice(0, n)
Slice(s, n) == SubSeq(s, 1, Min(n, Len(s)))

\* Array.prototype.filter((_, i) => i !== k), k a 0-based index
FilterOutIndex(s, k) ==
    [j \in 1 .. (IF k >= 0 /\ k < Len(s) THEN Len(s) - 1 ELSE Len(s)) |->
        IF k < 0 \/ j <= k THEN s[j] ELSE s[j + 1]]

LuckyText(n) == "Lucky Card " \o ToString(n)

\* Array.from({length: n}, (_, i) => ({id: from + i, text: `Lucky Card ${from + i + 1}`}))
NewCards(from, n) ==
    [j \in 1 .. Max(n, 0) |-> [id |-> from + j - 1, text |-> LuckyText(from + j)]]

defaultCardContents == NewCards(0, DefaultCardAmount)

defaultSettings ==
    [cardAmount |-> DefaultCardAmount,
     cardContents |-> defaultCardContents,
     moveSpeed |-> DefaultMoveSpeed,
     deleteDrawnCard |-> "undefined"]

\* JavaScript truthiness of the deleteDrawnCard field
Truthy(b) == b = "true"

noGesture == [handDetected |-> FALSE, palmX |-> 50, isPinching |-> FALSE, gestureSpeed |-> 0]

(* localStorage and JSON.  The item is absent (getItem returns null), a text
   JSON.parse rejects, the JSON null, a JSON number, or a JSON object: a record
   with the fields the object has. *)

\* stringify leaving out every field that is not truthy
stringifyDropsFalsy(s) ==
    [kind |-> "object",
     value |-> [f \in {g \in DOMAIN s : g # "deleteDrawnCard" \/ Truthy(s[g])} |-> s[f]]]

\* JSON.stringify(settings) as stored by setItem: a field whose value is
\* undefined is left out.
stringify(s) ==
    [kind |-> "object",
     value |-> [f \in {g \in DOMAIN s : g # "deleteDrawnCard" \/ s[g] # "undefined"} |-> s[f]]]

\* The settings record a parsed JSON object is used as: reading the missing
\* deleteDrawnCard gives undefined.
asSettings(parsed) ==
    [f \in DOMAIN parsed \cup {"deleteDrawnCard"} |->
        IF f \in DOMAIN parsed THEN parsed[f] ELSE "undefined"]

\* The initializer of the settings state in AppProvider.
loadSettings(stored) ==
    IF stored.kind = "absent" THEN defaultSettings
    ELSE IF stored.kind = "unparseable" THEN defaultSettings     \* JSON.parse throws
    ELSE IF stored.kind \in {"null", "number"} THEN defaultSettings
                                     \* parsed.cardContents.length throws a TypeError
    ELSE LET parsed == stored.value
         IN  IF "cardContents" \notin DOMAIN parsed THEN defaultSettings   \* TypeError
             ELSE IF "cardAmount" \in DOMAIN parsed
                     /\ Len(parsed.cardContents) < parsed.cardAmount
                  THEN asSettings([parsed EXCEPT !.cardContents =
                          parsed.cardContents
                             \o NewCards(Len(parsed.cardContents),
                                         parsed.cardAmount - Len(parsed.cardContents))])
                  ELSE asSettings(parsed)

----------------------------------------------------------------------------
VARIABLES
    settings,              \* AppContext: the stored settings record
    storage,               \* localStorage: the item 'gachacha-settings'
    page,                  \* the mounted route: "home" or "settings"
    localCardAmount,       \* SettingsPage local state (0 / <<>> while unmounted)
    localCardContents,
    localMoveSpeed,
    localDeleteDrawnCard,
    rotation,              \* HomePage state
    isMoving,
    selectedCard,
    flippedCard,
    direction,
    gestureEnabled,
    gestureSpeed,
    lastPinchStateRef,
    currentGesture,        \* useGestureControl: the latest frame's GestureData
    handsRef,              \* useGestureControl: the hand detector, "null" or "open"
    cameraRef,             \* useGestureControl: the camera object, "null" or "set"
    cameraStart,           \* the attempt's await camera.start(): "none", "pending",
                           \* "started" (its stream is active) or "failed"
    isInitialized,
    error,                 \* TRUE when error holds a message, FALSE when null
    staleStarts,           \* camera.start() calls still pending after their cleanup ran
    leakedStreams,         \* camera streams acquired by such calls
    lastOp,                \* history: the handler that ran last ("handleReset/removed"
                           \* when handleReset changed the stored settings,
                           \* "handleCancel/edited" when local edits were dropped)
    pinchConfirms          \* history: gesture confirms during the pinch being held

storeVars == <<settings, storage>>
localVars == <<localCardAmount, localCardContents, localMoveSpeed, localDeleteDrawnCard>>
homeVars == <<rotation, isMoving, selectedCard, flippedCard, direction,
              gestureEnabled, gestureSpeed, lastPinchStateRef, currentGesture>>
hookVars == <<handsRef, cameraRef, cameraStart, isInitialized, error>>
mediaVars == <<staleStarts, leakedStreams>>
progVars == <<settings, storage, page, localVars, homeVars, hookVars, mediaVars>>
vars == <<settings, storage, page, localVars, homeVars, hookVars, mediaVars, lastOp, pinchConfirms>>

\* A freshly mounted HomePage (useState / useRef initial values).
HomeMounted ==
    /\ rotation' = 0
    /\ isMoving' = TRUE
    /\ selectedCard' = Null
    /\ flippedCard' = Null
    /\ direction' = 1
    /\ gestureEnabled' = FALSE
    /\ gestureSpeed' = 0
    /\ lastPinchStateRef' = FALSE
    /\ currentGesture' = noGesture
    /\ handsRef' = "null"
    /\ cameraRef' = "null"
    /\ cameraStart' = "none"
    /\ isInitialized' = FALSE
    /\ error' = FALSE
    /\ pinchConfirms' = 0

\* SettingsPage unmounted: its local state does not exist.
LocalUnmounted ==
    /\ localCardAmount' = 0
    /\ localCardContents' = <<>>
    /\ localMoveSpeed' = 0
    /\ localDeleteDrawnCard' = "undefined"

\* The cleanup of the useGestureControl effect, registered by a run of the
\* effect with enabled = true: camera.stop(), hands.close() and the track
\* stops release the detector and the stream of a started camera, and the
\* refs are nulled.  A camera.start() still pending is not awaited or
\* cancelled (isMounted = false only silences its state updates).
cleanupMedia ==
    /\ (gestureEnabled /\ cameraStart = "pending")
          => staleStarts + leakedStreams < MaxStaleStarts
    /\ staleStarts' = IF gestureEnabled /\ cameraStart = "pending"
                      THEN staleStarts + 1 ELSE staleStarts
    /\ leakedStreams' = leakedStreams

Init ==
    /\ settings = defaultSettings
    /\ storage = stringify(settings)
    /\ page = "home"
    /\ localCardAmount = 0
    /\ localCardContents = <<>>
    /\ localMoveSpeed = 0
    /\ localDeleteDrawnCard = "undefined"
    /\ rotation = 0
    /\ isMoving = TRUE
    /\ selectedCard = Null
    /\ flippedCard = Null
    /\ direction = 1
    /\ gestureEnabled = FALSE
    /\ gestureSpeed = 0
    /\ lastPinchStateRef = FALSE
    /\ currentGesture = noGesture
    /\ handsRef = "null"
    /\ cameraRef = "null"
    /\ cameraStart = "none"
    /\ isInitialized = FALSE
    /\ error = FALSE
    /\ staleStarts = 0
    /\ leakedStreams = 0
    /\ lastOp = "init"
    /\ pinchConfirms = 0

----------------------------------------------------------------------------
(* AppContext: the settings store *)

\* updateSettings(newSettings), as the state updater prev => updated.
\* newSettings is a partial record: only the fields in its DOMAIN are given.
updateSettings(prev, newSettings) ==
    LET updated == [f \in DOMAIN prev |->
                       IF f \in DOMAIN newSettings THEN newSettings[f] ELSE prev[f]]
        have == Len(prev.cardContents)
    IN  IF "cardAmount" \in DOMAIN newSettings
           /\ newSettings.cardAmount # prev.cardAmount
        THEN IF newSettings.cardAmount > have
             THEN [updated EXCEPT !.cardContents =
                      prev.cardContents \o NewCards(have, newSettings.cardAmount - have)]
             ELSE [updated EXCEPT !.cardContents =
                      Slice(prev.cardContents, newSettings.cardAmount)]
        ELSE updated

\* The page is loaded: AppProvider initializes the settings from localStorage,
\* the persist effect stores them, HomePage mounts at '/'.  The document left
\* behind, with its media requests and streams, is gone.
reloadPage ==
    /\ settings' = loadSettings(storage)
    /\ storage' = stringify(settings')
    /\ page' = "home"
    /\ HomeMounted
    /\ LocalUnmounted
    /\ staleStarts' = 0
    /\ leakedStreams' = 0
    /\ lastOp' = "reloadPage"

\* The item 'gachacha-settings' is written from outside this page (another
\* version of the application, another tab, the user): what getItem returns
\* at the next load.
externalWrite(stored) ==
    /\ storage' = stored
    /\ lastOp' = "externalWrite"
    /\ UNCHANGED <<settings, page, localVars, homeVars, hookVars, mediaVars, pinchConfirms>>

----------------------------------------------------------------------------
(* SettingsPage *)

\* navigate('/settings'): HomePage unmounts, SettingsPage mounts and copies
\* the stored settings into its local state.
openSettings ==
    /\ page = "home"
    /\ page' = "settings"
    /\ localCardAmount' = settings.cardAmount
    /\ localMoveSpeed' = settings.moveSpeed
    /\ localCardContents' = settings.cardContents
    /\ localDeleteDrawnCard' = settings.deleteDrawnCard
    /\ HomeMounted
    /\ cleanupMedia
    /\ lastOp' = "openSettings"
    /\ UNCHANGED <<settings, storage>>

handleCardAmountChange(amount) ==
    /\ page = "settings"
    /\ LET validAmount == Max(MinCardAmount, Min(MaxCardAmount, amount))
           have == Len(localCardContents)
       IN  /\ localCardAmount' = validAmount
           /\ localCardContents' =
                 IF validAmount > have
                 THEN localCardContents \o NewCards(have, validAmount - have)
                 ELSE Slice(localCardContents, validAmount)
    /\ lastOp' = "handleCardAmountChange"
    /\ UNCHANGED <<settings, storage, page, localMoveSpeed, localDeleteDrawnCard, homeVars, pinchConfirms, hookVars, mediaVars>>

\* The inputs rendered are localCardContents.slice(0, localCardAmount).
handleCardContentChange(index, text) ==
    /\ page = "settings"
    /\ index < Min(localCardAmount, Len(localCardContents))
    /\ localCardContents' =
          [localCardContents EXCEPT ![index + 1] = [@ EXCEPT !.text = text]]
    /\ lastOp' = "handleCardContentChange"
    /\ UNCHANGED <<settings, storage, page, localCardAmount, localMoveSpeed, localDeleteDrawnCard,
                   homeVars, pinchConfirms, hookVars, mediaVars>>

\* Movement Speed slider: onChange={e => setLocalMoveSpeed(Number(e.target.value))}
setLocalMoveSpeed(speed) ==
    /\ page = "settings"
    /\ localMoveSpeed' = speed
    /\ lastOp' = "setLocalMoveSpeed"
    /\ UNCHANGED <<settings, storage, page, localCardAmount, localCardContents, localDeleteDrawnCard,
                   homeVars, pinchConfirms, hookVars, mediaVars>>

\* Delete Drawn Card checkbox: a click inverts checked={localDeleteDrawnCard}.
setLocalDeleteDrawnCard ==
    /\ page = "settings"
    /\ localDeleteDrawnCard' = IF Truthy(localDeleteDrawnCard) THEN "false" ELSE "true"
    /\ lastOp' = "setLocalDeleteDrawnCard"
    /\ UNCHANGED <<settings, storage, page, localCardAmount, localCardContents, localMoveSpeed,
                   homeVars, pinchConfirms, hookVars, mediaVars>>

\* SettingsPage.handleReset ("Reset to Default")
handleResetDefaults ==
    /\ page = "settings"
    /\ localCardContents' = NewCards(0, localCardAmount)
    /\ localCardAmount' = DefaultCardAmount
    /\ localMoveSpeed' = DefaultMoveSpeed
    /\ localDeleteDrawnCard' = "false"
    /\ lastOp' = "handleResetDefaults"
    /\ UNCHANGED <<settings, storage, page, homeVars, pinchConfirms, hookVars, mediaVars>>

\* "Save Changes": updateSettings with the four local values, then navigate('/').
handleSave ==
    /\ page = "settings"
    /\ settings' = updateSettings(settings,
                      [cardAmount |-> localCardAmount,
                       cardContents |-> localCardContents,
                       moveSpeed |-> localMoveSpeed,
                       deleteDrawnCard |-> localDeleteDrawnCard])
    /\ storage' = stringify(settings')
    /\ page' = "home"
    /\ HomeMounted
    /\ LocalUnmounted
    /\ lastOp' = "handleSave"
    /\ UNCHANGED mediaVars

\* The local values differ from the stored settings.
localEdited ==
    \/ localCardAmount # settings.cardAmount
    \/ localCardContents # settings.cardContents
    \/ localMoveSpeed # settings.moveSpeed
    \/ localDeleteDrawnCard # settings.deleteDrawnCard

\* handleCancel calling updateSettings with the local values, as handleSave does
handleCancelSaves ==
    /\ page = "settings"
    /\ settings' = updateSettings(settings,
                      [cardAmount |-> localCardAmount,
                       cardContents |-> localCardContents,
                       moveSpeed |-> localMoveSpeed,
                       deleteDrawnCard |-> localDeleteDrawnCard])
    /\ storage' = stringify(settings')
    /\ page' = "home"
    /\ HomeMounted
    /\ LocalUnmounted
    /\ lastOp' = IF localEdited THEN "handleCancel/edited" ELSE "handleCancel"
    /\ UNCHANGED mediaVars

\* "Cancel" and the close button: navigate('/').
handleCancel ==
    /\ page = "settings"
    /\ page' = "home"
    /\ HomeMounted
    /\ LocalUnmounted
    /\ lastOp' = IF localEdited THEN "handleCancel/edited" ELSE "handleCancel"
    /\ UNCHANGED <<settings, storage, mediaVars>>

----------------------------------------------------------------------------
(* useGestureControl: the gesture interpreter *)

\* calculateGestureSpeed(palmX): palmX in hundredths, the result in 45ths.
calculateGestureSpeed(palmX) ==
    IF palmX > 50 + GestureDeadZone
    THEN Min(GestureMaxRange, palmX - (50 + GestureDeadZone))
    ELSE IF palmX < 50 - GestureDeadZone
         THEN -Min(GestureMaxRange, 50 - GestureDeadZone - palmX)
         ELSE 0

\* ---- JavaScript numbers: IEEE 754 binary64 ----
\* The carousel above is carried in exact units; where the exact value of a
\* result matters, the arithmetic of calculateGestureSpeed is evaluated as the
\* engine does, in binary64 with round-to-nearest, ties to even.  A natural
\* number of any size is a sequence of bits, least significant first, with no
\* leading zero bit (zero is <<>>).
RECURSIVE bitsOf(_)
bitsOf(n) == IF n = 0 THEN <<>> ELSE <<n % 2>> \o bitsOf(n \div 2)

bitAt(b, i) == IF i <= Len(b) THEN b[i] ELSE 0

\* b without its leading zero bits
trimBits(b) ==
    IF \A i \in 1 .. Len(b) : b[i] = 0 THEN <<>>
    ELSE SubSeq(b, 1, CHOOSE i \in 1 .. Len(b) :
                         b[i] = 1 /\ \A j \in i + 1 .. Len(b) : b[j] = 0)

\* b * 2^k
shiftLeft(b, k) == IF b = <<>> THEN <<>> ELSE [i \in 1 .. k |-> 0] \o b

\* a < b
lessBits(a, b) ==
    IF Len(a) # Len(b) THEN Len(a) < Len(b)
    ELSE \E i \in 1 .. Len(a) :
            a[i] < b[i] /\ \A j \in i + 1 .. Len(a) : a[j] = b[j]

\* the carry out of the bits 1 .. i of a + b
carryFrom(a, b, i) ==
    \E k \in 1 .. i :
        /\ bitAt(a, k) + bitAt(b, k) = 2
        /\ \A j \in k + 1 .. i : bitAt(a, j) + bitAt(b, j) = 1

\* a + b
addBits(a, b) ==
    trimBits([i \in 1 .. Max(Len(a), Len(b)) + 1 |->
                 (bitAt(a, i) + bitAt(b, i)
                    + (IF carryFrom(a, b, i - 1) THEN 1 ELSE 0)) % 2])

\* the borrow out of the bits 1 .. i of a - b
borrowFrom(a, b, i) ==
    \E k \in 1 .. i :
        /\ bitAt(a, k) < bitAt(b, k)
        /\ \A j \in k + 1 .. i : bitAt(a, j) = bitAt(b, j)

\* a - b, for a >= b
subBits(a, b) ==
    trimBits([i \in 1 .. Len(a) |->
                 (bitAt(a, i) - bitAt(b, i)
                    - (IF borrowFrom(a, b, i - 1) THEN 1 ELSE 0) + 2) % 2])

\* Long division of n by d: the steps for the bits i, i - 1, ..., stop + 1 of
\* n, from the remainder r and the quotient bits q of the bits above i.
RECURSIVE divFrom(_, _, _, _, _, _)
divFrom(n, d, i, stop, r, q) ==
    IF i = stop THEN [q |-> q, r |-> r]
    ELSE LET r2 == trimBits(<<n[i]>> \o r)
         IN  IF lessBits(r2, d)
             THEN divFrom(n, d, i - 1, stop, r2, <<0>> \o q)
             ELSE divFrom(n, d, i - 1, stop, subBits(r2, d), <<1>> \o q)

\* The same in runs of 8 steps, each run's result a value before the next
\* run starts.
RECURSIVE divRuns(_, _, _, _, _)
divRuns(n, d, i, r, q) ==
    IF i = 0 THEN [q |-> trimBits(q), r |-> r]
    ELSE CHOOSE res \in {divRuns(n, d, Max(0, i - 8), run.r, run.q) :
                            run \in {divFrom(n, d, i, Max(0, i - 8), r, q)}} : TRUE

\* quotient and remainder of n by d, d > 0; the leading Len(d) - 1 bits of n
\* are less than d
divBits(n, d) ==
    IF Len(n) < Len(d) THEN [q |-> <<>>, r |-> n]
    ELSE CHOOSE res \in {divRuns(x, y, Len(x) - Len(y) + 1,
                                 SubSeq(x, Len(x) - Len(y) + 2, Len(x)), <<>>) :
                            x \in {n}, y \in {d}} : TRUE

\* A binary64 value is (-1)^neg * m * 2^e with m of MantissaBits bits, or zero
\* (m = <<>>); the exponents of this computation are far from the subnormal
\* and the overflow range.
MantissaBits == 53

numZero == [neg |-> FALSE, m |-> <<>>, e |-> 0]

\* The binary64 nearest to (bits + f) * 2^e, where 0 < f < 1 when sticky and
\* f = 0 otherwise; ties to even.
roundBits(bits, sticky, e) ==
    IF bits = <<>> THEN numZero
    ELSE IF Len(bits) <= MantissaBits
    THEN [neg |-> FALSE, m |-> shiftLeft(bits, MantissaBits - Len(bits)),
          e |-> e - (MantissaBits - Len(bits))]
    ELSE LET t == Len(bits) - MantissaBits
             kept == SubSeq(bits, t + 1, Len(bits))
             rest == sticky \/ \E i \in 1 .. t - 1 : bits[i] = 1
             up == bits[t] = 1 /\ (rest \/ kept[1] = 1)
             m == IF up THEN addBits(kept, <<1>>) ELSE kept
         IN  IF Len(m) > MantissaBits
             THEN [neg |-> FALSE, m |-> SubSeq(m, 2, Len(m)), e |-> e + t + 1]
             ELSE [neg |-> FALSE, m |-> m, e |-> e + t]

\* The binary64 nearest to (n / d) * 2^e, for n, d > 0.
roundRatio(n, d, e) ==
    LET k == MantissaBits + 2 + Len(d) - Len(n)
        qr == divBits(shiftLeft(n, k), shiftLeft(d, -k))
    IN  roundBits(qr.q, qr.r # <<>>, e - k)

\* A decimal literal or a decimal input p / q as the engine reads it.
numOf(p, q) == IF p = 0 THEN numZero ELSE roundRatio(bitsOf(p), bitsOf(q), 0)

\* x < y, x + y, x - y and x / y on non-negative values (x >= y for x - y,
\* y > 0 for x / y), as the operators <, +, - and / of the engine.
numLess(x, y) ==
    LET e == Min(x.e, y.e)
    IN  lessBits(shiftLeft(x.m, x.e - e), shiftLeft(y.m, y.e - e))

numAdd(x, y) ==
    LET e == Min(x.e, y.e)
    IN  roundBits(addBits(shiftLeft(x.m, x.e - e), shiftLeft(y.m, y.e - e)), FALSE, e)

numSub(x, y) ==
    LET e == Min(x.e, y.e)
    IN  roundBits(subBits(shiftLeft(x.m, x.e - e), shiftLeft(y.m, y.e - e)), FALSE, e)

numDiv(x, y) == IF x.m = <<>> THEN numZero ELSE roundRatio(x.m, y.m, x.e - y.e)

numOne == numOf(1, 1)

\* Math.min(1, x) and -x
numMinOne(x) == IF numLess(numOne, x) THEN numOne ELSE x

numNeg(x) == [x EXCEPT !.neg = ~x.neg]

\* The literals 0.05, 0.45 and 0.5 of calculateGestureSpeed, and its
\* subexpressions 0.5 + deadZone and 0.5 - deadZone.
deadZoneNum == numOf(5, 100)
maxRangeNum == numOf(45, 100)
halfNum == numOf(1, 2)
rightEdgeNum == numAdd(halfNum, deadZoneNum)
leftEdgeNum == numSub(halfNum, deadZoneNum)

\* calculateGestureSpeed(palmX) on binary64 values.
calculateGestureSpeedBinary64(palmX) ==
    IF numLess(rightEdgeNum, palmX)
    THEN numMinOne(numDiv(numSub(palmX, rightEdgeNum), maxRangeNum))
    ELSE IF numLess(palmX, leftEdgeNum)
         THEN numNeg(numMinOne(numDiv(numSub(leftEdgeNum, palmX), maxRangeNum)))
         ELSE numZero

\* gestureDataOf with the fields of the previous frame kept when no hand is seen
gestureDataOfKeepsLast(hand, palmX, closed) ==
    IF hand
    THEN [handDetected |-> TRUE, palmX |-> palmX, isPinching |-> closed,
          gestureSpeed |-> calculateGestureSpeed(palmX)]
    ELSE [currentGesture EXCEPT !.handDetected = FALSE]

\* The GestureData onResults builds from one detection result.  hand is FALSE
\* when multiHandLandmarks is empty; closed is detectHandClosure(landmarks).
gestureDataOf(hand, palmX, closed) ==
    IF hand
    THEN [handDetected |-> TRUE, palmX |-> palmX, isPinching |-> closed,
          gestureSpeed |-> calculateGestureSpeed(palmX)]
    ELSE noGesture

----------------------------------------------------------------------------
(* HomePage *)

\* The cards rendered: cardContents.slice(0, cardAmount)
displayedCards == Slice(settings.cardContents, settings.cardAmount)

\* radius, in 40ths of a pixel: screenWidth * 0.25 * cardAmountFactor within
\* [200, 400] * cardAmountFactor, cardAmountFactor = Math.max(1, cardAmount / 10);
\* window.innerWidth is taken as the width of the carousel's container.
radius(cardAmount) ==
    LET cardAmountFactor == Max(10, cardAmount)       \* in tenths
    IN  Min(1600 * cardAmountFactor,
            Max(800 * cardAmountFactor, ContainerWidth * cardAmountFactor))

\* The angle of card index, index * anglePerCard - rotation, within one turn,
\* in units of rotation times cardAmount.
cardAngle(index, rot, cardAmount) ==
    (index * FullTurn - rot * cardAmount) % (cardAmount * FullTurn)

\* Math.cos in thousandths, by Bhaskara's rational approximation on the angle
\* rounded to half a degree (h half-degrees within a quarter turn): it is
\* exact at 0, 60, 90, 120 and 180 degrees and within 0.003 elsewhere.
cosQuarter(h) == RoundDiv(1000 * (129600 - 4 * h * h), 129600 + h * h)

cosOf(angle, cardAmount) ==
    LET h == RoundDiv(2 * angle, UnitsPerDegree * cardAmount)     \* 0 .. 720
        folded == IF h > 360 THEN 720 - h ELSE h                   \* cos(360 - t) = cos(t)
    IN  IF folded > 180 THEN -cosQuarter(360 - folded)             \* cos(180 - t) = -cos(t)
        ELSE cosQuarter(folded)

\* getCardStyle with scale = (radius - z) / (radius * 2)
getCardStyleFarFirst(index, rot, cardAmount) ==
    LET z == cosOf(cardAngle(index, rot, cardAmount), cardAmount) * radius(cardAmount)
        scaleNum == 1000 * radius(cardAmount) - z
        scaleDen == 1000 * radius(cardAmount) * 2
    IN  [z |-> z, scaleNum |-> scaleNum, scaleDen |-> scaleDen,
         opacity |-> IF 10 * scaleNum > 3 * scaleDen THEN 10 ELSE 3]

\* getCardStyle(index): z in 40000ths of a pixel, scale as the fraction
\* scaleNum / scaleDen, opacity in tenths.
getCardStyle(index, rot, cardAmount) ==
    LET z == cosOf(cardAngle(index, rot, cardAmount), cardAmount) * radius(cardAmount)
        scaleNum == z + 1000 * radius(cardAmount)
        scaleDen == 1000 * radius(cardAmount) * 2
    IN  [z |-> z, scaleNum |-> scaleNum, scaleDen |-> scaleDen,
         opacity |-> IF 10 * scaleNum > 3 * scaleDen THEN 10 ELSE 3]

\* centeredCardIndex without the final "% cardAmount"
centeredCardIndexNoWrap(rot, cardAmount) ==
    LET normalizedRotation == JsRem(JsRem(rot, FullTurn) + FullTurn, FullTurn)
    IN  RoundDiv(normalizedRotation * cardAmount, FullTurn)

\* centeredCardIndex with Math.floor in place of Math.round
centeredCardIndexFloor(rot, cardAmount) ==
    LET normalizedRotation == JsRem(JsRem(rot, FullTurn) + FullTurn, FullTurn)
    IN  ((normalizedRotation * cardAmount) \div FullTurn) % cardAmount

\* centeredCardIndex with rotation % 360 alone as the normalized rotation
centeredCardIndexNoShift(rot, cardAmount) ==
    LET normalizedRotation == JsRem(rot, FullTurn)
    IN  JsRem((2 * normalizedRotation * cardAmount + FullTurn) \div (2 * FullTurn), cardAmount)

\* The index handleConfirm computes from a rotation and a card amount:
\* Math.round(normalizedRotation / (360 / cardAmount)) % cardAmount
centeredCardIndex(rot, cardAmount) ==
    LET normalizedRotation == JsRem(JsRem(rot, FullTurn) + FullTurn, FullTurn)
    IN  RoundDiv(normalizedRotation * cardAmount, FullTurn) % cardAmount

\* confirmEffect without setIsMoving(false)
confirmEffectKeepsMoving ==
    /\ selectedCard' = centeredCardIndex(rotation, settings.cardAmount)
    /\ isMoving' = isMoving

\* The state changes of handleConfirm
confirmEffect ==
    /\ selectedCard' = centeredCardIndex(rotation, settings.cardAmount)
    /\ isMoving' = FALSE

\* The "Confirm Selection" button, rendered while selectedCard === null.
handleConfirm ==
    /\ page = "home"
    /\ selectedCard = Null
    /\ confirmEffect
    /\ lastOp' = "handleConfirm"
    /\ UNCHANGED <<settings, storage, page, localVars, rotation, flippedCard, direction,
                   gestureEnabled, gestureSpeed, lastPinchStateRef, currentGesture,
                   pinchConfirms, hookVars, mediaVars>>

\* handleCardClick without the test selectedCard === index
handleCardClickAnyCard(index) ==
    /\ page = "home"
    /\ index < Len(Slice(settings.cardContents, settings.cardAmount))
    /\ flippedCard' =
          IF isMoving \/ selectedCard = Null THEN flippedCard
          ELSE (IF flippedCard = index THEN Null ELSE index)
    /\ lastOp' = "handleCardClick"
    /\ UNCHANGED <<settings, storage, page, localVars, rotation, isMoving, selectedCard, direction,
                   gestureEnabled, gestureSpeed, lastPinchStateRef, currentGesture,
                   pinchConfirms, hookVars, mediaVars>>

\* A click on the rendered card at index.
handleCardClick(index) ==
    /\ page = "home"
    /\ index < Len(displayedCards)
    /\ flippedCard' =
          IF isMoving \/ selectedCard = Null THEN flippedCard
          ELSE IF selectedCard = index
               THEN (IF flippedCard = index THEN Null ELSE index)
               ELSE flippedCard
    /\ lastOp' = "handleCardClick"
    /\ UNCHANGED <<settings, storage, page, localVars, rotation, isMoving, selectedCard, direction,
                   gestureEnabled, gestureSpeed, lastPinchStateRef, currentGesture,
                   pinchConfirms, hookVars, mediaVars>>

\* The settings handleReset passes to updateSettings when it removes the drawn card.
removeDrawnCard(s, selected) ==
    updateSettings(s, [cardContents |-> FilterOutIndex(s.cardContents, selected),
                       cardAmount |-> Max(MinCardAmount, s.cardAmount - 1)])

\* handleReset without the test cardContents.length > 3
handleResetNoFloor ==
    /\ page = "home"
    /\ selectedCard # Null
    /\ selectedCard' = Null
    /\ flippedCard' = Null
    /\ lastPinchStateRef' = FALSE
    /\ gestureSpeed' = 0
    /\ IF Truthy(settings.deleteDrawnCard) /\ selectedCard # Null
       THEN /\ settings' = removeDrawnCard(settings, selectedCard)
            /\ storage' = stringify(settings')
       ELSE UNCHANGED <<settings, storage>>
    /\ isMoving' = TRUE
    /\ lastOp' = IF settings' # settings THEN "handleReset/removed" ELSE "handleReset"
    /\ UNCHANGED <<page, localVars, rotation, direction, gestureEnabled, currentGesture,
                   pinchConfirms, hookVars, mediaVars>>

\* handleReset without the test of deleteDrawnCard
handleResetIgnoresToggle ==
    /\ page = "home"
    /\ selectedCard # Null
    /\ selectedCard' = Null
    /\ flippedCard' = Null
    /\ lastPinchStateRef' = FALSE
    /\ gestureSpeed' = 0
    /\ IF selectedCard # Null /\ Len(settings.cardContents) > MinCardAmount
       THEN /\ settings' = removeDrawnCard(settings, selectedCard)
            /\ storage' = stringify(settings')
       ELSE UNCHANGED <<settings, storage>>
    /\ isMoving' = TRUE
    /\ lastOp' = IF settings' # settings THEN "handleReset/removed" ELSE "handleReset"
    /\ UNCHANGED <<page, localVars, rotation, direction, gestureEnabled, currentGesture,
                   pinchConfirms, hookVars, mediaVars>>

\* The "Draw Again" button, rendered while selectedCard !== null.
handleReset ==
    /\ page = "home"
    /\ selectedCard # Null
    /\ selectedCard' = Null
    /\ flippedCard' = Null
    /\ lastPinchStateRef' = FALSE
    /\ gestureSpeed' = 0
    /\ IF Truthy(settings.deleteDrawnCard) /\ selectedCard # Null
          /\ Len(settings.cardContents) > MinCardAmount
       THEN /\ settings' = removeDrawnCard(settings, selectedCard)
            /\ storage' = stringify(settings')
       ELSE UNCHANGED <<settings, storage>>
    /\ isMoving' = TRUE
    /\ lastOp' = IF settings' # settings THEN "handleReset/removed" ELSE "handleReset"
    /\ UNCHANGED <<page, localVars, rotation, direction, gestureEnabled, currentGesture,
                   pinchConfirms, hookVars, mediaVars>>

\* The speed of one frame, in units of rotation per frame: the expression
\* "gestureEnabled && Math.abs(gestureSpeed) > 0.05 ? Math.abs(gestureSpeed) *
\* 2 * moveSpeed : 0.5 * moveSpeed" of animate.
frameSpeed(enabled, speed, moveSpeed) ==
    IF enabled /\ 20 * Abs(speed) > GestureMaxRange
    THEN (UnitsPerDegree * 2 * Abs(speed) * moveSpeed) \div (GestureMaxRange * 10)
    ELSE (UnitsPerDegree * moveSpeed) \div 20

\* animate without the effect's "if (!isMoving) return"
animateWhileStopped(deltaTime) ==
    /\ page = "home"
    /\ LET byGesture == gestureEnabled /\ 20 * Abs(gestureSpeed) > GestureMaxRange
           speed == IF byGesture
                    THEN (UnitsPerDegree * 2 * Abs(gestureSpeed) * settings.moveSpeed)
                             \div (GestureMaxRange * 10)
                    ELSE (UnitsPerDegree * settings.moveSpeed) \div 20
       IN  rotation' = rotation + speed * direction * deltaTime
    /\ Abs(rotation') <= MaxTurns * FullTurn
    /\ lastOp' = "animate"
    /\ UNCHANGED <<settings, storage, page, localVars, isMoving, selectedCard, flippedCard, direction,
                   gestureEnabled, gestureSpeed, lastPinchStateRef, currentGesture,
                   pinchConfirms, hookVars, mediaVars>>

\* One animation frame callback; deltaTime is the elapsed time in 60 fps frames.
animate(deltaTime) ==
    /\ page = "home"
    /\ isMoving
    /\ LET \* Math.abs(gestureSpeed) > 0.05, gestureSpeed in 45ths
           byGesture == gestureEnabled /\ 20 * Abs(gestureSpeed) > GestureMaxRange
           \* degrees per frame, in units: |gestureSpeed| * 2 * moveSpeed or 0.5 * moveSpeed
           speed == IF byGesture
                    THEN (UnitsPerDegree * 2 * Abs(gestureSpeed) * settings.moveSpeed)
                             \div (GestureMaxRange * 10)
                    ELSE (UnitsPerDegree * settings.moveSpeed) \div 20
       IN  rotation' = rotation + speed * direction * deltaTime
    /\ Abs(rotation') <= MaxTurns * FullTurn
    /\ lastOp' = "animate"
    /\ UNCHANGED <<settings, storage, page, localVars, isMoving, selectedCard, flippedCard, direction,
                   gestureEnabled, gestureSpeed, lastPinchStateRef, currentGesture,
                   pinchConfirms, hookVars, mediaVars>>

\* handleMouseMove / handleTouchMove: x is the pointer's offset in the container.
pointerDirection(x) ==
    IF ~isMoving \/ gestureEnabled THEN direction
    ELSE IF x < EdgeThreshold THEN -1
         ELSE IF x > ContainerWidth - EdgeThreshold THEN 1
              ELSE direction

handleMouseMove(x) ==
    /\ page = "home"
    /\ direction' = pointerDirection(x)
    /\ lastOp' = "handleMouseMove"
    /\ UNCHANGED <<settings, storage, page, localVars, rotation, isMoving, selectedCard, flippedCard,
                   gestureEnabled, gestureSpeed, lastPinchStateRef, currentGesture,
                   pinchConfirms, hookVars, mediaVars>>

handleTouchMove(x) ==
    /\ page = "home"
    /\ direction' = pointerDirection(x)
    /\ lastOp' = "handleTouchMove"
    /\ UNCHANGED <<settings, storage, page, localVars, rotation, isMoving, selectedCard, flippedCard,
                   gestureEnabled, gestureSpeed, lastPinchStateRef, currentGesture,
                   pinchConfirms, hookVars, mediaVars>>

\* The useGestureControl effect run with enabled = true: initializeHandTracking
\* up to its await (the detector and the camera are created and stored in the
\* refs, camera.start() is called).
initializeHandTracking ==
    /\ handsRef' = "open"
    /\ cameraRef' = "set"
    /\ cameraStart' = "pending"
    /\ UNCHANGED <<isInitialized, error, mediaVars>>

\* The effect's cleanup when enabled turns false.
effectCleanup ==
    /\ cleanupMedia
    /\ handsRef' = "null"
    /\ cameraRef' = "null"
    /\ cameraStart' = "none"
    /\ isInitialized' = FALSE
    /\ error' = error

\* The gesture toggle button, and the effect of useGestureControl that the
\* new value of enabled runs.
handleGestureToggle ==
    /\ page = "home"
    /\ gestureEnabled' = ~gestureEnabled
    /\ IF gestureEnabled THEN effectCleanup ELSE initializeHandTracking
    /\ lastOp' = "handleGestureToggle"
    /\ UNCHANGED <<settings, storage, page, localVars, rotation, isMoving, selectedCard, flippedCard,
                   direction, gestureSpeed, lastPinchStateRef, currentGesture, pinchConfirms>>

\* cameraStartResolves without setError(null)
cameraStartResolvesKeepsError ==
    /\ page = "home"
    /\ cameraStart = "pending"
    /\ cameraStart' = "started"
    /\ isInitialized' = TRUE
    /\ error' = error
    /\ lastOp' = "cameraStartResolves"
    /\ UNCHANGED <<settings, storage, page, localVars, homeVars, handsRef, cameraRef, mediaVars,
                   pinchConfirms>>

\* await camera.start() of the current attempt resolves: the stream is active.
cameraStartResolves ==
    /\ page = "home"
    /\ cameraStart = "pending"
    /\ cameraStart' = "started"
    /\ isInitialized' = TRUE
    /\ error' = FALSE
    /\ lastOp' = "cameraStartResolves"
    /\ UNCHANGED <<settings, storage, page, localVars, homeVars, handsRef, cameraRef, mediaVars,
                   pinchConfirms>>

\* await camera.start() of the current attempt rejects: the catch block.
cameraStartRejects ==
    /\ page = "home"
    /\ cameraStart = "pending"
    /\ cameraStart' = "failed"
    /\ error' = TRUE
    /\ lastOp' = "cameraStartRejects"
    /\ UNCHANGED <<settings, storage, page, localVars, homeVars, handsRef, cameraRef, isInitialized,
                   mediaVars, pinchConfirms>>

\* staleStartResolves without the isMounted check
staleStartResolvesUnguarded ==
    /\ staleStarts > 0
    /\ staleStarts' = staleStarts - 1
    /\ leakedStreams' = leakedStreams + 1
    /\ isInitialized' = TRUE
    /\ error' = FALSE
    /\ lastOp' = "staleStartResolves"
    /\ UNCHANGED <<settings, storage, page, localVars, homeVars, handsRef, cameraRef, cameraStart,
                   pinchConfirms>>

\* A camera.start() whose cleanup has already run resolves: isMounted is
\* false, nothing is updated and nothing stops the stream it acquired.
staleStartResolves ==
    /\ staleStarts > 0
    /\ staleStarts' = staleStarts - 1
    /\ leakedStreams' = leakedStreams + 1
    /\ lastOp' = "staleStartResolves"
    /\ UNCHANGED <<settings, storage, page, localVars, homeVars, hookVars, pinchConfirms>>

\* A camera.start() whose cleanup has already run rejects.
staleStartRejects ==
    /\ staleStarts > 0
    /\ staleStarts' = staleStarts - 1
    /\ lastOp' = "staleStartRejects"
    /\ UNCHANGED <<settings, storage, page, localVars, homeVars, hookVars, leakedStreams, pinchConfirms>>

\* handleGestureUpdate fires handleConfirm on this frame.
gestureConfirms(gesture) ==
    gestureEnabled /\ selectedCard = Null /\ gesture.isPinching /\ ~lastPinchStateRef

\* handleGestureUpdate(gesture): the HomePage state it changes.
handleGestureUpdate(gesture) ==
    IF ~gestureEnabled \/ selectedCard # Null
    THEN UNCHANGED <<gestureSpeed, direction, selectedCard, isMoving, lastPinchStateRef>>
    ELSE /\ gestureSpeed' = gesture.gestureSpeed
         /\ direction' = IF 10 * Abs(gesture.gestureSpeed) > GestureMaxRange  \* > 0.1
                         THEN (IF gesture.gestureSpeed > 0 THEN 1 ELSE -1)
                         ELSE direction
         /\ IF gesture.isPinching /\ ~lastPinchStateRef
            THEN confirmEffect
            ELSE UNCHANGED <<selectedCard, isMoving>>
         /\ lastPinchStateRef' = gesture.isPinching

\* A camera with an active stream calls onFrame, which sends the image to
\* handsRef.current when it is set.
framesFlow == handsRef = "open" /\ (cameraStart = "started" \/ leakedStreams > 0)

\* onResults: one detection result from the hand-tracking provider (the canvas
\* is rendered while gesture mode is enabled); the latest frame replaces
\* currentGesture and is handed to handleGestureUpdate.
onResults(hand, palmX, closed) ==
    /\ page = "home"
    /\ gestureEnabled
    /\ framesFlow
    /\ pinchConfirms < MaxPinchConfirms
    /\ LET gestureData == gestureDataOf(hand, palmX, closed)
       IN  /\ currentGesture' = gestureData
           /\ handleGestureUpdate(gestureData)
           /\ pinchConfirms' =
                 IF ~gestureData.isPinching THEN 0
                 ELSE IF gestureConfirms(gestureData) THEN pinchConfirms + 1
                      ELSE pinchConfirms
    /\ lastOp' = "onResults"
    /\ UNCHANGED <<settings, storage, page, localVars, rotation, flippedCard, gestureEnabled,
                   hookVars, mediaVars>>

----------------------------------------------------------------------------
(* Specifications *)

SettingsNext ==
    \/ \E amount \in AmountInputs : handleCardAmountChange(amount)
    \/ \E index \in 0 .. MaxEditIndex, text \in EditTexts : handleCardContentChange(index, text)
    \/ \E speed \in SpeedInputs : setLocalMoveSpeed(speed)
    \/ setLocalDeleteDrawnCard
    \/ handleResetDefaults

NavigationNext ==
    \/ openSettings
    \/ handleSave
    \/ handleCancel

DrawNext ==
    \/ handleConfirm
    \/ \E index \in 0 .. MaxCardAmount - 1 : handleCardClick(index)
    \/ handleReset
    \/ \E deltaTime \in DeltaFrames : animate(deltaTime)
    \/ \E x \in PointerInputs : handleMouseMove(x)
    \/ \E x \in PointerInputs : handleTouchMove(x)

GestureNext ==
    \/ handleGestureToggle
    \/ cameraStartResolves
    \/ \E hand \in BOOLEAN, palmX \in PalmInputs, closed \in BOOLEAN :
          onResults(hand, palmX, closed)

\* Spec: the settings page, the store and pointer-driven draws (gesture mode
\* stays off, as it is after every mount of HomePage).
Next == SettingsNext \/ NavigationNext \/ DrawNext

Spec == Init /\ [][Next]_vars

\* SpecGesture: draws under gesture mode.  It starts from the store as saved
\* from the defaults with GestureCardAmount cards and Delete Drawn Card either
\* untouched (undefined) or enabled; the settings page is entered and left
\* without edits, so the store changes by card removal alone.
InitGesture ==
    /\ \E delete \in {"undefined", "true"} :
          settings = updateSettings(defaultSettings,
                        [cardAmount |-> GestureCardAmount, deleteDrawnCard |-> delete])
    /\ storage = stringify(settings)
    /\ page = "home"
    /\ localCardAmount = 0
    /\ localCardContents = <<>>
    /\ localMoveSpeed = 0
    /\ localDeleteDrawnCard = "undefined"
    /\ rotation = 0
    /\ isMoving = TRUE
    /\ selectedCard = Null
    /\ flippedCard = Null
    /\ direction = 1
    /\ gestureEnabled = FALSE
    /\ gestureSpeed = 0
    /\ lastPinchStateRef = FALSE
    /\ currentGesture = noGesture
    /\ handsRef = "null"
    /\ cameraRef = "null"
    /\ cameraStart = "none"
    /\ isInitialized = FALSE
    /\ error = FALSE
    /\ staleStarts = 0
    /\ leakedStreams = 0
    /\ lastOp = "init"
    /\ pinchConfirms = 0

\* (handleTouchMove, the same transition as handleMouseMove, is left to Spec
\* and SpecCamera.)
NextGesture ==
    \/ NavigationNext
    \/ handleConfirm
    \/ \E index \in 0 .. MaxCardAmount - 1 : handleCardClick(index)
    \/ handleReset
    \/ \E deltaTime \in DeltaFrames : animate(deltaTime)
    \/ \E x \in PointerInputs : handleMouseMove(x)
    \/ GestureNext

SpecGesture == InitGesture /\ [][NextGesture]_vars

\* SpecConfirm: handleConfirm as a function of (cardAmount, rotation).  The
\* store holds cardAmount default cards (the state after saving that amount
\* from the defaults) and the carousel has turned to any angle of ConfirmAngles.
InitConfirm ==
    /\ \E amount \in MinCardAmount .. MaxCardAmount :
          settings = updateSettings(defaultSettings, [cardAmount |-> amount])
    /\ storage = stringify(settings)
    /\ page = "home"
    /\ localCardAmount = 0
    /\ localCardContents = <<>>
    /\ localMoveSpeed = 0
    /\ localDeleteDrawnCard = "undefined"
    /\ rotation \in ConfirmAngles
    /\ isMoving = TRUE
    /\ selectedCard = Null
    /\ flippedCard = Null
    /\ direction \in {-1, 1}
    /\ gestureEnabled = FALSE
    /\ gestureSpeed = 0
    /\ lastPinchStateRef = FALSE
    /\ currentGesture = noGesture
    /\ handsRef = "null"
    /\ cameraRef = "null"
    /\ cameraStart = "none"
    /\ isInitialized = FALSE
    /\ error = FALSE
    /\ staleStarts = 0
    /\ leakedStreams = 0
    /\ lastOp = "init"
    /\ pinchConfirms = 0

NextConfirm == handleConfirm \/ handleReset

SpecConfirm == InitConfirm /\ [][NextConfirm]_vars

\* SpecCamera: the life cycle of the camera and the detector under the gesture
\* toggle and the navigation, with the pointer and the frames of a running
\* camera; no card is drawn and the store stays as constructed.
CameraNext ==
    \/ handleGestureToggle
    \/ cameraStartResolves
    \/ cameraStartRejects
    \/ staleStartResolves
    \/ staleStartRejects

NextCamera ==
    \/ CameraNext
    \/ openSettings
    \/ handleCancel
    \/ \E x \in PointerInputs : handleMouseMove(x)
    \/ \E x \in PointerInputs : handleTouchMove(x)
    \/ \E hand \in BOOLEAN, palmX \in PalmInputs : onResults(hand, palmX, FALSE)

SpecCamera == Init /\ [][NextCamera]_vars

\* SpecSettings: the settings page alone, with any requested card amount and
\* speed handed to the change handlers.
RequestedSpeeds == {MinMoveSpeed - 1, MinMoveSpeed, MaxMoveSpeed, MaxMoveSpeed + 1}

NextSettings ==
    \/ \E amount \in AmountInputs : handleCardAmountChange(amount)
    \/ \E index \in 0 .. MaxEditIndex, text \in EditTexts : handleCardContentChange(index, text)
    \/ \E speed \in RequestedSpeeds : setLocalMoveSpeed(speed)
    \/ setLocalDeleteDrawnCard
    \/ handleResetDefaults
    \/ NavigationNext

SpecSettings == Init /\ [][NextSettings]_vars

\* SpecLoad: the settings initializer on any stored item.
StoredIds == {0, 1, 3}
StoredAmounts == {MinCardAmount - 1, MinCardAmount, MaxCardAmount, MaxCardAmount + 1}
StoredSpeeds == {MinMoveSpeed - 1, MinMoveSpeed, MaxMoveSpeed, MaxMoveSpeed + 1}

StoredCardLists ==
    UNION {[1 .. n -> {[id |-> i, text |-> "X"] : i \in StoredIds}] : n \in 0 .. MaxStoredCards}

\* records with fewer cards than cardAmount, the cards carrying any ids
ShortRecords ==
    {[cardAmount |-> a, cardContents |-> c, moveSpeed |-> DefaultMoveSpeed] :
        a \in {MinCardAmount, MinCardAmount + 1}, c \in StoredCardLists}

\* records as the application stores them, with any card amount and speed
RangeRecords ==
    {[cardAmount |-> a, cardContents |-> NewCards(0, a), moveSpeed |-> sp] :
        a \in StoredAmounts, sp \in StoredSpeeds}
    \cup {[cardAmount |-> a, cardContents |-> NewCards(0, a), moveSpeed |-> sp,
           deleteDrawnCard |-> d] :
              a \in StoredAmounts, sp \in StoredSpeeds, d \in {"true", "false"}}

\* objects that are not settings records
MalformedObjects ==
    {[moveSpeed |-> DefaultMoveSpeed],
     [cardAmount |-> DefaultCardAmount, moveSpeed |-> DefaultMoveSpeed],
     [cardContents |-> defaultCardContents, moveSpeed |-> DefaultMoveSpeed]}

StoredValues ==
    {[kind |-> k] : k \in {"absent", "unparseable", "null", "number"}}
    \cup {[kind |-> "object", value |-> v] :
             v \in ShortRecords \cup RangeRecords \cup MalformedObjects}

NextLoad ==
    \/ \E stored \in StoredValues : externalWrite(stored)
    \/ reloadPage

SpecLoad == Init /\ [][NextLoad]_vars

\* SpecPalm: gesture mode with a hand at any palm position of a grid of
\* hundredths of the frame width (0.00, 0.01, ..., 1.00), from the defaults;
\* no card is drawn and the carousel's angle is left aside.
FinePalmInputs == 0 .. 100

NextPalm ==
    \/ handleGestureToggle
    \/ cameraStartResolves
    \/ \E hand \in BOOLEAN, palmX \in FinePalmInputs : onResults(hand, palmX, FALSE)

SpecPalm == Init /\ [][NextPalm]_vars

\* SpecSpeed: the carousel turning under gesture mode with the palm at the
\* centre, in the dead zone, just outside it (intensities 0.044, 0.067, 0.244
\* and 0.267 to the right, 0.067 to the left) and at the edges.
SpeedPalmInputs == {0, 42, 50, 52, 57, 58, 66, 67, 100}

NextSpeed ==
    \/ handleGestureToggle
    \/ cameraStartResolves
    \/ \E hand \in BOOLEAN, palmX \in SpeedPalmInputs : onResults(hand, palmX, FALSE)
    \/ \E deltaTime \in DeltaFrames : animate(deltaTime)

SpecSpeed == Init /\ [][NextSpeed]_vars

\* SpecPlacement: the carousel drawn at any angle of a grid of 4.5 degrees,
\* for every card amount (the store as saved from the defaults), with a draw
\* and its reset.
PlacementAngles ==
    {((UnitsPerDegree * 9) \div 2) * k : k \in -(80 * MaxTurns) .. (80 * MaxTurns)}

InitPlacement ==
    /\ \E amount \in MinCardAmount .. MaxCardAmount :
          settings = updateSettings(defaultSettings, [cardAmount |-> amount])
    /\ storage = stringify(settings)
    /\ page = "home"
    /\ localCardAmount = 0
    /\ localCardContents = <<>>
    /\ localMoveSpeed = 0
    /\ localDeleteDrawnCard = "undefined"
    /\ rotation \in PlacementAngles
    /\ isMoving = TRUE
    /\ selectedCard = Null
    /\ flippedCard = Null
    /\ direction = 1
    /\ gestureEnabled = FALSE
    /\ gestureSpeed = 0
    /\ lastPinchStateRef = FALSE
    /\ currentGesture = noGesture
    /\ handsRef = "null"
    /\ cameraRef = "null"
    /\ cameraStart = "none"
    /\ isInitialized = FALSE
    /\ error = FALSE
    /\ staleStarts = 0
    /\ leakedStreams = 0
    /\ lastOp = "init"
    /\ pinchConfirms = 0

NextPlacement == handleConfirm \/ handleReset

SpecPlacement == InitPlacement /\ [][NextPlacement]_vars

\* SpecPool: the settings page and draws with card removal, from the defaults
\* or from a stored record of MinCardAmount cards with distinct ids among
\* StoredIds (in any order), loaded when the page opens.
PoolRecords ==
    {[cardAmount |-> MinCardAmount, cardContents |-> c, moveSpeed |-> DefaultMoveSpeed,
      deleteDrawnCard |-> d] :
        c \in {l \in [1 .. MinCardAmount -> {[id |-> i, text |-> "X"] : i \in StoredIds}] :
                  \A i, j \in 1 .. MinCardAmount : i # j => l[i].id # l[j].id},
        d \in {"true", "false"}}

InitPool ==
    /\ \E stored \in {[kind |-> "absent"]} \cup {[kind |-> "object", value |-> v] : v \in PoolRecords} :
          settings = loadSettings(stored)
    /\ storage = stringify(settings)
    /\ page = "home"
    /\ localCardAmount = 0
    /\ localCardContents = <<>>
    /\ localMoveSpeed = 0
    /\ localDeleteDrawnCard = "undefined"
    /\ rotation = 0
    /\ isMoving = TRUE
    /\ selectedCard = Null
    /\ flippedCard = Null
    /\ direction = 1
    /\ gestureEnabled = FALSE
    /\ gestureSpeed = 0
    /\ lastPinchStateRef = FALSE
    /\ currentGesture = noGesture
    /\ handsRef = "null"
    /\ cameraRef = "null"
    /\ cameraStart = "none"
    /\ isInitialized = FALSE
    /\ error = FALSE
    /\ staleStarts = 0
    /\ leakedStreams = 0
    /\ lastOp = "init"
    /\ pinchConfirms = 0

NextPool ==
    \/ SettingsNext
    \/ NavigationNext
    \/ handleConfirm
    \/ handleReset

SpecPool == InitPool /\ [][NextPool]_vars

----------------------------------------------------------------------------
(* Properties *)

ResetOps == {"handleReset", "handleReset/removed"}

Rotating == isMoving /\ selectedCard = Null /\ flippedCard = Null
SelectedHidden == ~isMoving /\ selectedCard # Null /\ flippedCard = Null
SelectedRevealed == ~isMoving /\ selectedCard # Null /\ flippedCard = selectedCard

\* C1: a Draw Again with deleteDrawnCard enabled and more than 3 cards in the
\* pool leaves the pool one card shorter: the selected card is gone and every
\* other card is kept in its order, whichever index was selected.
C1_ResetRemovesSelected ==
    [][(/\ lastOp' \in ResetOps
        /\ Truthy(settings.deleteDrawnCard)
        /\ Len(displayedCards) > MinCardAmount)
       => /\ settings'.cardContents = FilterOutIndex(settings.cardContents, selectedCard)
          /\ Len(settings'.cardContents) = Len(settings.cardContents) - 1
          /\ settings'.cardAmount = settings.cardAmount - 1]_vars

\* C2: the stored settings always hold as many card contents as cardAmount says.
C2_ContentsMatchAmount == Len(settings.cardContents) = settings.cardAmount

\* C3: Save Changes stores exactly the values shown on the settings page:
\* card amount, every card content, speed and the delete-drawn-card toggle.
C3_SaveAppliesLocalValues ==
    [][lastOp' = "handleSave"
       => /\ settings'.cardAmount = localCardAmount
          /\ settings'.cardContents = localCardContents
          /\ settings'.moveSpeed = localMoveSpeed
          /\ settings'.deleteDrawnCard = localDeleteDrawnCard]_vars

\* C4: the index confirm selects lies in 0 .. cardAmount - 1, for every card
\* amount 3..20 and every rotation, negative ones and several turns included.
C4_IndexInRange ==
    selectedCard # Null => selectedCard \in 0 .. settings.cardAmount - 1

C4_Witness ==
    /\ selectedCard = settings.cardAmount - 1
    /\ rotation < -FullTurn
    /\ lastOp = "handleConfirm"

\* The distance of card j's slot (j * 360/cardAmount - rotation) from the
\* front position, around the circle, times cardAmount.
slotDistance(j, rot, cardAmount) ==
    LET d == (j * FullTurn - rot * cardAmount) % (cardAmount * FullTurn)
    IN  Min(d, cardAmount * FullTurn - d)

\* C5: the card confirm selects is one nearest the front: no other card's slot
\* is strictly closer to the front position than the selected card's.
C5_NearestToFront ==
    selectedCard # Null =>
        \A j \in 0 .. settings.cardAmount - 1 :
            slotDistance(selectedCard, rotation, settings.cardAmount)
                <= slotDistance(j, rotation, settings.cardAmount)

\* A confirm half-way between two slots, at a negative rotation.
C5_Witness ==
    /\ selectedCard # Null
    /\ lastOp = "handleConfirm"
    /\ rotation < 0
    /\ \E j \in 0 .. settings.cardAmount - 1 :
          /\ j # selectedCard
          /\ slotDistance(j, rotation, settings.cardAmount)
                = slotDistance(selectedCard, rotation, settings.cardAmount)

\* C6: a selected card is always one of the cards displayed.
C6_SelectedIsDisplayed ==
    selectedCard # Null => selectedCard < Len(displayedCards)

\* C7: the selection is always Rotating, Selected-Hidden or Selected-Revealed
\* (moving exactly when nothing is selected, a revealed card being the selected
\* one); a confirm leads from Rotating to Selected-Hidden and a reset from
\* either Selected state to Rotating.
C7_SelectionStates ==
    /\ [](Rotating \/ SelectedHidden \/ SelectedRevealed)
    /\ [][/\ (selectedCard = Null /\ selectedCard' # Null) => (Rotating /\ SelectedHidden')
          /\ lastOp' = "handleConfirm" => (Rotating /\ SelectedHidden')
          /\ lastOp' \in ResetOps => ((SelectedHidden \/ SelectedRevealed) /\ Rotating')]_vars

\* A card selected by a pinch and then revealed.
C7_Witness ==
    /\ SelectedRevealed
    /\ pinchConfirms = 1
    /\ lastOp = "handleCardClick"

\* C8: removal never takes the pool below 3 cards: cardAmount stays >= 3, at
\* least 3 cards are displayed, and a reset with 3 or fewer cards in the pool
\* leaves cardAmount and cardContents as they were.
C8_RemovalFloor ==
    /\ [](settings.cardAmount >= MinCardAmount /\ Len(displayedCards) >= MinCardAmount)
    /\ [][(lastOp' \in ResetOps /\ Len(displayedCards) <= MinCardAmount)
          => /\ settings'.cardAmount = settings.cardAmount
             /\ settings'.cardContents = settings.cardContents]_vars

\* A reset with removal enabled that removed nothing, the pool being at 3.
C8_Witness ==
    /\ lastOp = "handleReset"
    /\ Truthy(settings.deleteDrawnCard)
    /\ settings.cardAmount = MinCardAmount
    /\ Len(settings.cardContents) = MinCardAmount

\* C9: one held pinch (consecutive frames with pinching = true) fires at most
\* one confirm, also when Draw Again is pressed while the pinch is held.
C9_OneConfirmPerPinch == pinchConfirms <= 1

\* C10: a click on the selected card while stopped toggles revealed and changes
\* nothing else; any other click changes no state at all.
C10_ClickFrame ==
    [][lastOp' = "handleCardClick" =>
       \A index \in 0 .. MaxCardAmount - 1 :
          handleCardClick(index) =>
              IF ~isMoving /\ selectedCard # Null /\ index = selectedCard
              THEN /\ flippedCard' = (IF flippedCard = index THEN Null ELSE index)
                   /\ UNCHANGED <<settings, storage, page, localVars, rotation, isMoving,
                                  selectedCard, direction, gestureEnabled, gestureSpeed,
                                  lastPinchStateRef, currentGesture>>
              ELSE UNCHANGED progVars]_vars

\* A click has revealed the selected card while other cards are displayed.
C10_Witness ==
    /\ lastOp = "handleCardClick"
    /\ flippedCard # Null
    /\ flippedCard = selectedCard
    /\ Len(displayedCards) > 1

\* C11: Reset to Default followed by Save Changes leaves the store at the
\* factory settings: cardAmount 10, the ten default cards, moveSpeed 1,
\* deleteDrawnCard false, whatever was stored or edited before.
C11_ResetThenSaveIsFactory ==
    [][(lastOp = "handleResetDefaults" /\ lastOp' = "handleSave")
       => /\ settings'.cardAmount = DefaultCardAmount
          /\ settings'.cardContents = defaultCardContents
          /\ settings'.moveSpeed = DefaultMoveSpeed
          /\ settings'.deleteDrawnCard = "false"]_vars

\* C12: while gesture mode is enabled and delivers no input (no hand in the
\* latest frame, the camera still starting or its start failed), a pointer
\* move near the left edge sets the direction to -1 and one near the right
\* edge sets it to 1, as long as the carousel is rotating.
C12_PointerSetsDirection ==
    [][(/\ lastOp' \in {"handleMouseMove", "handleTouchMove"}
        /\ gestureEnabled
        /\ isMoving
        /\ ~currentGesture.handDetected)
       => \A x \in PointerInputs :
             (handleMouseMove(x) \/ handleTouchMove(x))
                => /\ (x < EdgeThreshold => direction' = -1)
                   /\ (x > ContainerWidth - EdgeThreshold => direction' = 1)]_vars

\* A camera stream is active: the started camera's or a leaked one.
streamActive == cameraStart = "started" \/ leakedStreams > 0

\* C13: with gesture mode disabled or HomePage torn down no camera stream is
\* active and the detector is closed, whenever the disable or the teardown
\* came during the initialization; and after a failed camera start the
\* detector that attempt opened is closed.
C13_ResourcesReleased ==
    /\ (page # "home" \/ ~gestureEnabled) => (~streamActive /\ handsRef = "null")
    /\ cameraStart = "failed" => handsRef = "null"

\* The stored item is a settings record: an object with cardAmount and cardContents.
isSettingsRecord(stored) ==
    /\ stored.kind = "object"
    /\ {"cardAmount", "cardContents"} \subseteq DOMAIN stored.value

\* C14: loading a record with fewer cardContents than cardAmount keeps its
\* cards and pads them to exactly cardAmount, and the id of a synthesized
\* card differs from the id of every other card of the result, synthesized
\* or stored, whatever ids the stored cards carry.
C14_LoadPadsWithFreshIds ==
    [][(/\ lastOp' = "reloadPage"
        /\ isSettingsRecord(storage)
        /\ Len(storage.value.cardContents) < storage.value.cardAmount)
       => LET old == storage.value.cardContents
              new == settings'.cardContents
          IN  /\ Len(new) = storage.value.cardAmount
              /\ SubSeq(new, 1, Len(old)) = old
              /\ \A i \in Len(old) + 1 .. Len(new) :
                    \A j \in 1 .. Len(new) : j # i => new[j].id # new[i].id]_vars

\* C15: a stored item that is not JSON, or is JSON but not a settings record
\* (null, a number, an object without cardAmount or without cardContents), is
\* discarded by the load: the settings are the defaults.
C15_MalformedGivesDefaults ==
    [][(/\ lastOp' = "reloadPage"
        /\ storage.kind # "absent"
        /\ ~isSettingsRecord(storage))
       => settings' = defaultSettings]_vars

\* C16: in every state, the state after loading any parseable item included,
\* cardAmount is an integer in 3..20 and moveSpeed lies in 0.5..3.0.
C16_SettingsInRange ==
    /\ "cardAmount" \in DOMAIN settings
    /\ settings.cardAmount \in MinCardAmount .. MaxCardAmount
    /\ settings.moveSpeed \in MinMoveSpeed .. MaxMoveSpeed

Clamp(lo, hi, v) == Max(lo, Min(hi, v))

C20_CancelKeepsStore ==
    [][(page = "settings" /\ lastOp' # "handleSave")
       => (settings' = settings /\ storage' = storage)]_vars

\* Local edits were dropped by Cancel, the store holding settings saved before.
C20_Witness ==
    /\ lastOp = "handleCancel/edited"
    /\ page = "home"
    /\ settings # defaultSettings

\* 0.5 x moveSpeed x direction x deltaTime degrees, in the units of rotation
baseStep(deltaTime) ==
    direction * ((UnitsPerDegree * settings.moveSpeed * deltaTime) \div 20)

\* 2 x |gestureSpeed| x moveSpeed x direction x deltaTime degrees, in the units
\* of rotation
gestureStep(deltaTime) ==
    direction * ((UnitsPerDegree * 2 * Abs(gestureSpeed) * settings.moveSpeed * deltaTime)
                    \div (GestureMaxRange * 10))

\* Gesture mode is on with an intensity above 0.05.
gestureDriven == gestureEnabled /\ 20 * Abs(gestureSpeed) > GestureMaxRange

\* While a card is selected the rotation stays as it is, and the index confirm
\* computes from it is the selected one.
stoppedAngleKept ==
    /\ [][(selectedCard # Null /\ page = "home" /\ page' = "home")
          => rotation' = rotation]_vars
    /\ [](selectedCard # Null
            => centeredCardIndex(rotation, settings.cardAmount) = selectedCard)

C19_PeriodicInAngle ==
    selectedCard # Null =>
        \A k \in -MaxConfirmTurns .. MaxConfirmTurns :
            centeredCardIndex(rotation + k * FullTurn, settings.cardAmount) = selectedCard

\* A confirm beyond a full turn that selected a card other than card 0.
C19_Witness ==
    /\ lastOp = "handleConfirm"
    /\ rotation > FullTurn
    /\ selectedCard > 0

DrawOps == {"animate", "handleMouseMove", "handleTouchMove", "onResults",
            "handleConfirm", "handleCardClick"}

\* C21: a frame tick, a pointer move, a gesture frame, a confirm and a card
\* click leave the stored settings and the persisted item as they are; a
\* reset changes them only when deleteDrawnCard is enabled, and then leaves
\* moveSpeed and deleteDrawnCard as they are.
C21_DrawsKeepStore ==
    [][/\ lastOp' \in DrawOps => (settings' = settings /\ storage' = storage)
       /\ lastOp' \in ResetOps
          => IF Truthy(settings.deleteDrawnCard)
             THEN /\ settings'.moveSpeed = settings.moveSpeed
                  /\ settings'.deleteDrawnCard = settings.deleteDrawnCard
             ELSE settings' = settings /\ storage' = storage]_vars

\* A reset has removed a card drawn by a pinch, gesture mode being on.
C21_Witness ==
    /\ lastOp = "handleReset/removed"
    /\ gestureEnabled
    /\ Truthy(settings.deleteDrawnCard)
    /\ settings.cardAmount < GestureCardAmount

\* The binary64 value calculateGestureSpeed returns for the palm position of
\* the latest frame (palmX in hundredths, read as the decimal it stands for).
intensityNum == calculateGestureSpeedBinary64(numOf(currentGesture.palmX, 100))

\* C22: the horizontal intensity of a hand frame is 0 for palmX within the
\* dead zone [0.45, 0.55], positive to the right of it and negative to the
\* left, never beyond -1 or +1, exactly +1 at palmX = 1.0 and exactly -1 at
\* palmX = 0.0.
C22_IntensityShape ==
    currentGesture.handDetected =>
        /\ (currentGesture.palmX \in 50 - GestureDeadZone .. 50 + GestureDeadZone)
              => intensityNum = numZero
        /\ currentGesture.palmX > 50 + GestureDeadZone
              => intensityNum.m # <<>> /\ ~intensityNum.neg
        /\ currentGesture.palmX < 50 - GestureDeadZone
              => intensityNum.m # <<>> /\ intensityNum.neg
        /\ ~numLess(numOne, [intensityNum EXCEPT !.neg = FALSE])
        /\ currentGesture.palmX = 100 => intensityNum = numOne
        /\ currentGesture.palmX = 0 => intensityNum = numNeg(numOne)

\* (what does hold: the same with "within one unit in the last place of +1"
\* at palmX = 1.0, where the result is 1 - 2^-53)
C22_IntensityShapeBut ==
    currentGesture.handDetected =>
        /\ (currentGesture.palmX \in 50 - GestureDeadZone .. 50 + GestureDeadZone)
              => intensityNum = numZero
        /\ currentGesture.palmX > 50 + GestureDeadZone
              => intensityNum.m # <<>> /\ ~intensityNum.neg
        /\ currentGesture.palmX < 50 - GestureDeadZone
              => intensityNum.m # <<>> /\ intensityNum.neg
        /\ ~numLess(numOne, [intensityNum EXCEPT !.neg = FALSE])
        /\ currentGesture.palmX = 100
              => intensityNum = [neg |-> FALSE, m |-> [i \in 1 .. MantissaBits |-> 1],
                                 e |-> -MantissaBits]
        /\ currentGesture.palmX = 0 => intensityNum = numNeg(numOne)

\* C23: a frame without a hand makes the current gesture handDetected = false,
\* gestureSpeed = 0 and isPinching = false, whatever the frames before it
\* produced, and HomePage is handed that value (its gestureSpeed becomes 0 and
\* its pinch state false while it follows the gestures).
C23_NoHandFrame ==
    [][(\E palmX \in PalmInputs, closed \in BOOLEAN : onResults(FALSE, palmX, closed))
          => /\ ~currentGesture'.handDetected
             /\ currentGesture'.gestureSpeed = 0
             /\ ~currentGesture'.isPinching
             /\ (gestureEnabled /\ selectedCard = Null)
                   => gestureSpeed' = 0 /\ ~lastPinchStateRef']_vars

\* a no-hand frame arrived with gesture mode on, after the carousel was turned
\* to the left and a card was drawn
C23_Witness ==
    /\ lastOp = "onResults"
    /\ ~currentGesture.handDetected
    /\ gestureEnabled
    /\ direction = -1
    /\ selectedCard # Null
    /\ pinchConfirms = 0

Sign(x) == IF x > 0 THEN 1 ELSE IF x < 0 THEN -1 ELSE 0

\* C24: with gesture mode on and the cards rotating, after a hand frame with
\* a nonzero horizontal intensity the direction is the sign of the intensity.
C24_DirectionFollowsPalm ==
    [][(/\ lastOp' = "onResults"
        /\ gestureEnabled /\ isMoving /\ selectedCard = Null
        /\ currentGesture'.handDetected
        /\ currentGesture'.gestureSpeed # 0)
          => direction' = Sign(currentGesture'.gestureSpeed)]_vars

\* (what does hold: the same for intensities above the threshold 0.1 of
\* handleGestureUpdate)
C24_DirectionFollowsStrongPalm ==
    [][(/\ lastOp' = "onResults"
        /\ gestureEnabled /\ isMoving /\ selectedCard = Null
        /\ currentGesture'.handDetected
        /\ 10 * Abs(currentGesture'.gestureSpeed) > GestureMaxRange)
          => direction' = Sign(currentGesture'.gestureSpeed)]_vars

\* C25: with gesture mode on, the magnitude of a frame's rotation step does
\* not decrease as the magnitude of the horizontal intensity grows: the step
\* taken is at least the step of the same frame for any palm position of
\* smaller or equal intensity.
C25_SpeedMonotone ==
    [][(lastOp' = "animate" /\ gestureEnabled)
          => \E deltaTime \in DeltaFrames :
                /\ Abs(rotation' - rotation)
                      = frameSpeed(TRUE, gestureSpeed, settings.moveSpeed) * deltaTime
                /\ \A palmX \in SpeedPalmInputs :
                      Abs(calculateGestureSpeed(palmX)) <= Abs(gestureSpeed)
                         => frameSpeed(TRUE, calculateGestureSpeed(palmX), settings.moveSpeed)
                               * deltaTime <= Abs(rotation' - rotation)]_vars

\* (what does hold: the step is the one of frameSpeed, and it does not
\* decrease among the intensities above 0.05)
C25_SpeedMonotoneAboveThreshold ==
    [][(lastOp' = "animate" /\ gestureEnabled)
          => \E deltaTime \in DeltaFrames :
                /\ Abs(rotation' - rotation)
                      = frameSpeed(TRUE, gestureSpeed, settings.moveSpeed) * deltaTime
                /\ \A palmX \in SpeedPalmInputs :
                      (/\ Abs(calculateGestureSpeed(palmX)) <= Abs(gestureSpeed)
                       /\ 20 * Abs(calculateGestureSpeed(palmX)) > GestureMaxRange)
                         => frameSpeed(TRUE, calculateGestureSpeed(palmX), settings.moveSpeed)
                               * deltaTime <= Abs(rotation' - rotation)]_vars

C27_RetryAfterFailure ==
    /\ []((page = "home" /\ cameraStart = "failed") => ENABLED handleGestureToggle)
    /\ [](isInitialized => cameraStart = "started")
    /\ [][/\ (lastOp' = "handleGestureToggle" /\ gestureEnabled')
                => (cameraStart' = "pending" /\ handsRef' = "open" /\ cameraRef' = "set")
          /\ lastOp' = "cameraStartResolves" => (isInitialized' /\ ~error')]_vars

\* a retry is in flight after a failed attempt, whose error is still shown
C27_Witness ==
    /\ lastOp = "handleGestureToggle"
    /\ gestureEnabled
    /\ cameraStart = "pending"
    /\ error
    /\ ~isInitialized

\* C29: an initialization attempt that resolves or rejects after its cleanup
\* ran (gesture mode disabled or HomePage unmounted) changes neither
\* isInitialized nor error, and isInitialized is true only while gesture mode
\* is enabled on the mounted HomePage.
C29_StaleAttemptIsSilent ==
    /\ [](isInitialized => (gestureEnabled /\ page = "home"))
    /\ [][lastOp' \in {"staleStartResolves", "staleStartRejects"}
             => (isInitialized' = isInitialized /\ error' = error)]_vars

\* the attempt of an earlier enable resolved while the attempt of the current
\* enable is still pending
C29_Witness ==
    /\ lastOp = "staleStartResolves"
    /\ gestureEnabled
    /\ cameraStart = "pending"
    /\ ~isInitialized
    /\ ~error

\* The style of the card rendered at index, and the cosine of its angle.
shownStyle(index) == getCardStyle(index, rotation, settings.cardAmount)

shownCos(index) == cosOf(cardAngle(index, rotation, settings.cardAmount), settings.cardAmount)

\* C28: the depth scale (z + radius) / (2 radius) of every card shown lies in
\* [0, 1] and does not decrease as the cosine of the card's angle grows; a
\* card at angle 0 has scale 1 and opacity 1, a card at 180 degrees has scale
\* 0 and opacity 0.3; and the opacity is 1 exactly when the scale is above 0.3.
C28_DepthScale ==
    \A i \in 0 .. Len(displayedCards) - 1 :
        /\ 0 <= shownStyle(i).scaleNum
        /\ shownStyle(i).scaleNum <= shownStyle(i).scaleDen
        /\ \A j \in 0 .. Len(displayedCards) - 1 :
              shownCos(i) <= shownCos(j) => shownStyle(i).scaleNum <= shownStyle(j).scaleNum
        /\ cardAngle(i, rotation, settings.cardAmount) = 0
              => (shownStyle(i).scaleNum = shownStyle(i).scaleDen /\ shownStyle(i).opacity = 10)
        /\ 2 * cardAngle(i, rotation, settings.cardAmount) = settings.cardAmount * FullTurn
              => (shownStyle(i).scaleNum = 0 /\ shownStyle(i).opacity = 3)
        /\ shownStyle(i).opacity \in {3, 10}
        /\ shownStyle(i).opacity = 10
              <=> 10 * shownStyle(i).scaleNum > 3 * shownStyle(i).scaleDen

\* a carousel with a card at the front, a card at the far point, and a card
\* dimmed in between
C28_Witness ==
    /\ page = "home"
    /\ \E i \in 0 .. Len(displayedCards) - 1 : cardAngle(i, rotation, settings.cardAmount) = 0
    /\ \E i \in 0 .. Len(displayedCards) - 1 :
          2 * cardAngle(i, rotation, settings.cardAmount) = settings.cardAmount * FullTurn
    /\ \E i \in 0 .. Len(displayedCards) - 1 :
          /\ shownStyle(i).scaleNum > 0
          /\ shownStyle(i).opacity = 3

\* C30: the ids of the cards in the stored pool are pairwise distinct (and so
\* are the keys of the cards displayed), in every state reached from the
\* defaults by settings edits, saves, resets to the defaults and draws with
\* card removal.
C30_DistinctIds ==
    \A i, j \in 1 .. Len(settings.cardContents) :
        i # j => settings.cardContents[i].id # settings.cardContents[j].id

====
